---- MODULE Spec2Model ----
(***************************************************************************)
(* A model of aitomics: the caller registry, the Response lineage graph,   *)
(* the JSON snapshot protocol (writeResponses / readResponses with the     *)
(* pending caller lookups) and the comparator front end.                   *)
(*                                                                         *)
(* JavaScript values are records [t, v, r]: t is the type tag, v the       *)
(* string form of a primitive and r the heap index of a Response.          *)
(* Registered Caller objects are identified by their registry key: the     *)
(* Caller constructor stores at most one object per key and never removes  *)
(* it.  The objects Response.create fabricates are "stub" references.      *)
(* `returned` holds the heap indices of the Responses the operations have   *)
(* handed back: the program reaches these and their input chains only.     *)
(***************************************************************************)
EXTENDS Integers, Sequences, FiniteSets, TLC

VARIABLES existingCallers, responses, pendingCallerLookups, file, returned, last

vars == <<existingCallers, responses, pendingCallerLookups, file, returned, last>>

--------------------------------------------------------------------------
(* Bounds *)

\* Responses a session may allocate while reading documents written elsewhere
MaxLoaded == 3
\* number of Responses caller runs and Response.create may allocate
MaxBuilt == 2
\* longest list handed to compareMultiple
MaxList == 2
\* longest array handed to the run of a comparison model
MaxLen == 3
\* most items a reviewer's list holds
MaxItems == 4

--------------------------------------------------------------------------
(* JavaScript values *)

Str(s) == [t |-> "string", v |-> s, r |-> 0]
Num(s) == [t |-> "number", v |-> s, r |-> 0]
Undefined == [t |-> "undefined", v |-> "undefined", r |-> 0]
\* a plain object that has no 'caller' property
PlainObject == [t |-> "object", v |-> "[object Object]", r |-> 0]
Ref(i) == [t |-> "response", v |-> "", r |-> i]

\* x instanceof Response
IsResponse(x) == x.t = "response"

\* property-key coercion of a value used as an object key
ToKey(x) == x.v

--------------------------------------------------------------------------
(* Input domains *)

IdentityId == Str("aitomic.identityCaller")
\* ids handed to (or defaulted by) the caller constructors: a label, a
\* hash-it default (a number) and a label that names an Object.prototype member
CallerIds == {Str("a"), Num("7"), Str("constructor")}
Keys == {ToKey(i) : i \in CallerIds \cup {IdentityId}}
\* own and inherited members of the object literal {} that holds the registry
ProtoKeys == {"constructor"}
Seeds == {Str("s"), Num("1")}
\* the constructor calls the model makes: new ProgrammaticCaller(fun, "a"),
\* new LLMCaller(context) whose id defaults to hash(context), and
\* new ProgrammaticCaller(fun, "constructor")
Constructions ==
    {<<Str("a"), "Programmatic">>, <<Num("7"), "LLM">>,
     <<Str("constructor"), "Programmatic">>}
\* what fun returns / fetch resolves to, per variant
Produced(variant) == IF variant = "Programmatic" THEN Str("o") ELSE Str("p")

--------------------------------------------------------------------------
(* Caller registry *)

NoCaller == [id |-> Undefined, variant |-> "none"]

\* existingCallers[key] as JavaScript evaluates it on the object literal
Lookup(reg, key) ==
    IF key \in DOMAIN reg /\ reg[key].variant # "none" THEN "caller"
    ELSE IF key \in ProtoKeys THEN "inherited"
    ELSE "undefined"

Truthy(l) == l # "undefined"

\* the reference to the Caller object registered under key
CallerRef(reg, key) == [k |-> "caller", key |-> key, id |-> reg[key].id]
\* the object Response.create casts to Caller
StubRef(id) == [k |-> "stub", key |-> "", id |-> id]

\* Caller.constructor guard
CallerConstructorThrows(reg, id) == Truthy(Lookup(reg, ToKey(id)))

\* Caller.constructor effect on the registry
CallerConstructor(reg, id, variant) ==
    [reg EXCEPT ![ToKey(id)] = [id |-> id, variant |-> variant]]

--------------------------------------------------------------------------
(* Response *)

generatingType == {"PROGRAMMATIC", "INPUT", "CUSTOM"}

\* new Response(output, caller, input, generator)
NewResponse(heap, output, caller, input, generator) ==
    LET root == ~IsResponse(input)
    IN [output |-> output, caller |-> caller, input |-> input,
        generator |-> generator, root |-> root,
        level |-> IF root THEN 1 ELSE heap[input.r].level + 1]

RECURSIVE rootInput(_, _)
rootInput(heap, x) ==
    IF IsResponse(x) THEN rootInput(heap, heap[x.r].input) ELSE x

\* number of Responses on the input chain starting at x
RECURSIVE Depth(_, _)
Depth(heap, x) ==
    IF IsResponse(x) THEN 1 + Depth(heap, heap[x.r].input) ELSE 0

\* the heap indices of the chain that starts at x, top first
RECURSIVE ChainOf(_, _)
ChainOf(heap, x) ==
    IF IsResponse(x) THEN <<x.r>> \o ChainOf(heap, heap[x.r].input) ELSE <<>>

\* the Responses the program holds: those returned to it and their inputs
Held == UNION {{ChainOf(responses, Ref(i))[j] :
                   j \in 1..Len(ChainOf(responses, Ref(i)))} : i \in returned}

Refs == {Ref(i) : i \in Held}

--------------------------------------------------------------------------
\* the registry, the heap and the file once the modules are loaded
ModuleLoad ==
    /\ existingCallers =
         [k \in Keys |-> IF k = ToKey(IdentityId)
                         THEN [id |-> IdentityId, variant |-> "Identity"]
                         ELSE NoCaller]
    /\ responses = <<>>
    /\ pendingCallerLookups = {}
    /\ file = [written |-> FALSE]
    /\ returned = {}

Init ==
    /\ ModuleLoad
    /\ last = [op |-> "init", err |-> ""]

\* new ProgrammaticCaller(fun, id) / new LLMCaller(context, id)
NewCaller(id, variant) ==
    /\ IF CallerConstructorThrows(existingCallers, id)
       THEN /\ last' = [op |-> "new Caller", err |-> "Duplicate", id |-> id,
                        variant |-> variant]
            /\ UNCHANGED existingCallers
       ELSE /\ existingCallers' = CallerConstructor(existingCallers, id, variant)
            /\ last' = [op |-> "new Caller", err |-> "", id |-> id,
                        variant |-> variant]
    /\ UNCHANGED <<responses, pendingCallerLookups, file, returned>>

\* content a caller of the given variant is run on
Contents(seeds) == seeds \cup Refs

\* a content check that lets everything through
NothingIllegal(variant, content) == FALSE
\* ProgrammaticCaller.run / LLMCaller.run / IdentityCaller.run input check:
\* TRUE when run throws `Illegal input type`
IllegalInput(variant, content) ==
    CASE variant = "Programmatic" -> ~IsResponse(content) /\ content.t # "string"
      [] variant = "LLM" ->
            ~IsResponse(content) /\ content.t # "string" /\ content.t # "number"
      [] OTHER -> FALSE

\* the value a caller's run hands to fun / fetch / the new Response
RunInput(heap, content) ==
    IF IsResponse(content) THEN heap[content.r].output ELSE content

\* caller.run(content) for the Caller registered under key; out is the value
\* fun or fetch produces, fails says whether it throws instead, and cap is the
\* number of Responses the session may hold
RunWith(key, content, out, fails, cap, base) ==
    LET c == existingCallers[key]
        ref == CallerRef(existingCallers, key)
    IN
    /\ Lookup(existingCallers, key) = "caller"
    /\ Len(responses) < cap
    /\ IF IllegalInput(c.variant, content)
       THEN /\ last' = base @@ [err |-> "IllegalInput"]
            /\ UNCHANGED <<responses, returned>>
       ELSE IF c.variant = "Identity"
       THEN /\ responses' = Append(responses,
                   NewResponse(responses, RunInput(responses, content), ref,
                               content, "INPUT"))
            /\ returned' = returned \cup {Len(responses) + 1}
            /\ last' = base @@ [err |-> "", ret |-> Len(responses) + 1]
       ELSE IF fails
       THEN /\ last' = base @@
                   [err |-> IF c.variant = "Programmatic" THEN "Transformation"
                            ELSE "Fetch",
                    root |-> rootInput(responses, content), id |-> c.id]
            /\ UNCHANGED <<responses, returned>>
       ELSE /\ responses' = Append(responses,
                   NewResponse(responses, out, ref, content, "PROGRAMMATIC"))
            /\ returned' = returned \cup {Len(responses) + 1}
            /\ last' = base @@ [err |-> "", ret |-> Len(responses) + 1]
    /\ UNCHANGED <<existingCallers, pendingCallerLookups, file>>

Run(key, content, out, fails, cap) ==
    RunWith(key, content, out, fails, cap, [op |-> "run"])

\* a run whose call is kept beside its outcome; fails only matters when fun
\* or fetch is reached
RunRecorded(key, content, out, fails, cap) ==
    RunWith(key, content, out, fails, cap,
            [op |-> "run", key |-> key, content |-> content, fails |-> fails])

\* the caller object Response.create builds: callerName = null gives "identity"
CreateCaller(callerName) ==
    StubRef(IF callerName.t = "null" THEN Str("identity") ELSE callerName)

Null == [t |-> "null", v |-> "null", r |-> 0]

\* Response.create(output, input, callerName)
create(heap, output, input, callerName) ==
    NewResponse(heap, output, CreateCaller(callerName), input, "CUSTOM")

Create(output, input, callerName) ==
    /\ Len(responses) < MaxBuilt
    /\ responses' = Append(responses, create(responses, output, input, callerName))
    /\ returned' = returned \cup {Len(responses) + 1}
    /\ last' = [op |-> "create", err |-> "", ret |-> Len(responses) + 1]
    /\ UNCHANGED <<existingCallers, pendingCallerLookups, file>>

--------------------------------------------------------------------------
(* Snapshot files *)

AITOMICS_FILE_HEADER == "AITOMICS_RESPONSE_FILE_v1"

\* a property JSON.stringify leaves out
Absent == [t |-> "absent", v |-> "", r |-> 0]

\* JSON.stringify of a property value: undefined properties are omitted
Stringify(x) == IF x.t = "undefined" THEN Absent ELSE x

\* obj.p for a property of a parsed JSON object
Prop(f) == IF f = Absent THEN Undefined ELSE f

\* Response.toJSON, one chain node; JSON.stringify omits the Symbol generator
toJSON(R) ==
    [output |-> Stringify(R.output), caller |-> Stringify(R.caller.id),
     root |-> R.root, level |-> R.level]

\* Response.toJSON recursing into input: the nodes from x down to the root
RECURSIVE toJSONChain(_, _)
toJSONChain(heap, x) ==
    IF IsResponse(x)
    THEN <<toJSON(heap[x.r])>> \o toJSONChain(heap, heap[x.r].input)
    ELSE <<>>

\* writeResponses' document for one Response: the chain nodes and the
\* primitive the last node embeds as input
writeResponses(heap, x) ==
    [written |-> TRUE, header |-> AITOMICS_FILE_HEADER,
     nodes |-> toJSONChain(heap, x),
     seed |-> Stringify(rootInput(heap, x))]

\* the local `caller` of Response.parse for a JSON node
ParseCaller(reg, c) ==
    IF c.t = "string"
    THEN CASE Lookup(reg, c.v) = "caller" -> CallerRef(reg, c.v)
           [] Lookup(reg, c.v) = "inherited" ->
                 [k |-> "inherited", key |-> c.v, id |-> Undefined]
           [] OTHER -> [k |-> "temporary", key |-> "", id |-> c]
    ELSE [k |-> "raw", key |-> "", id |-> Undefined]

\* Response.parse(obj) for the JSON node nodes[i]: allocates the Response at
\* Len(st.heap) + 1, then its input chain, and records pending lookups
RECURSIVE parseJSON(_, _, _, _, _)
parseJSON(reg, st, nodes, seed, i) ==
    LET n == nodes[i]
        pc == ParseCaller(reg, n.caller)
        nested == i < Len(nodes)
        rid == Len(st.heap) + 1
        input0 == IF nested THEN PlainObject ELSE Prop(seed)
        made == IF pc.k = "caller"
                THEN NewResponse(st.heap, Prop(n.output), pc, input0, "PROGRAMMATIC")
                ELSE create(st.heap, Prop(n.output), input0, n.caller)
        resp == [made EXCEPT !.root = n.root, !.level = n.level]
        st1 == [st EXCEPT !.heap = Append(@, resp)]
        st2 == IF nested THEN parseJSON(reg, st1, nodes, seed, i + 1) ELSE st1
        heap3 == IF nested THEN [st2.heap EXCEPT ![rid].input = Ref(rid + 1)]
                 ELSE st2.heap
        pend3 == IF pc.k # "caller"
                 THEN st2.pend \cup {[key |-> pc.id, r |-> rid]}
                 ELSE st2.pend
    IN [heap |-> heap3, pend |-> pend3]

\* Response.parse(obj) when obj is already a Response (heap[q]): its caller is
\* an object, so the copy shares it and no pending lookup is recorded
RECURSIVE parseResponse(_, _)
parseResponse(st, q) ==
    LET R == st.heap[q]
        rid == Len(st.heap) + 1
        made == NewResponse(st.heap, R.output, R.caller, R.input, R.generator)
        resp == [made EXCEPT !.root = R.root, !.level = R.level]
        st1 == [st EXCEPT !.heap = Append(@, resp)]
        nested == IsResponse(R.input)
        st2 == IF nested THEN parseResponse(st1, R.input.r) ELSE st1
    IN IF nested THEN [st2 EXCEPT !.heap[rid].input = Ref(rid + 1)] ELSE st2

\* readResponses.parseNestedResponse(x) for the input x of a parsed Response
RECURSIVE parseNestedResponse(_, _)
parseNestedResponse(st, x) ==
    CASE x.t = "string" -> [heap |-> st.heap, pend |-> st.pend, err |-> "", ret |-> x]
      [] x.t = "object" ->
            [heap |-> st.heap, pend |-> st.pend, err |-> "InvalidFormat", ret |-> x]
      [] x.t = "response" ->
            LET rid == Len(st.heap) + 1
                st1 == parseResponse(st, x.r)
                inner == parseNestedResponse(st1, st1.heap[rid].input)
            IN IF inner.err # "" THEN inner
               ELSE [inner EXCEPT !.heap[rid].input = inner.ret, !.ret = Ref(rid)]
      [] OTHER ->
            [heap |-> st.heap, pend |-> st.pend, err |-> "TypeError", ret |-> x]

\* the structure check of parseNestedResponse on the top JSON node
Tampered(doc) ==
    \/ doc.nodes[1].caller = Absent
    \/ doc.nodes[1].output = Absent
    \/ Len(doc.nodes) = 1 /\ doc.seed = Absent

\* readResponses(filepath) on a document holding one response tree
readResponses(reg, st, doc) ==
    IF doc.header # AITOMICS_FILE_HEADER \/ Tampered(doc)
    THEN [heap |-> st.heap, pend |-> st.pend, err |-> "InvalidFormat",
          ret |-> Undefined]
    ELSE LET rid == Len(st.heap) + 1
             st1 == parseJSON(reg, st, doc.nodes, doc.seed, 1)
             inner == parseNestedResponse(st1, st1.heap[rid].input)
         IN IF inner.err # "" THEN inner
            ELSE [inner EXCEPT !.heap[rid].input = inner.ret, !.ret = Ref(rid)]

\* Response.linkCaller(caller) for the Caller registered under key
linkCaller(reg, heap, pend, key) ==
    LET hit == {e \in pend : e.key = reg[key].id}
    IN [heap |-> [i \in 1..Len(heap) |->
                    IF \E e \in hit : e.r = i
                    THEN [heap[i] EXCEPT !.caller = CallerRef(reg, key)]
                    ELSE heap[i]],
        pend |-> pend \ hit]

\* writeResponses(filepath, responses[i]); `of` remembers which Response the
\* file was written from
Write(i) ==
    /\ i \in Held
    /\ file' = writeResponses(responses, Ref(i)) @@ [of |-> i]
    /\ last' = [op |-> "write", err |-> "", arg |-> i]
    /\ UNCHANGED <<existingCallers, responses, pendingCallerLookups, returned>>

\* the heap a session needs to build MaxBuilt Responses and to read the
\* longest chain back: readResponses allocates k + (k-1) + ... + 1 Responses
\* for a chain of k
HeapSize == MaxBuilt + (MaxBuilt * (MaxBuilt + 1)) \div 2

\* readResponses(filepath) where the file holds doc
Read(doc, cap) ==
    LET res == readResponses(existingCallers,
                   [heap |-> responses, pend |-> pendingCallerLookups], doc)
    IN /\ Len(res.heap) <= cap
       /\ responses' = res.heap
       /\ pendingCallerLookups' = res.pend
       /\ returned' = IF res.err = "" THEN returned \cup {res.ret.r} ELSE returned
       /\ last' = [op |-> "read", err |-> res.err, ret |-> res.ret.r, doc |-> doc,
                   first |-> Len(responses) + 1]
       /\ UNCHANGED <<existingCallers, file>>

\* Response.linkCaller(get(key))
LinkCaller(key) ==
    LET res == linkCaller(existingCallers, responses, pendingCallerLookups, key)
    IN /\ Lookup(existingCallers, key) = "caller"
       /\ responses' = res.heap
       /\ pendingCallerLookups' = res.pend
       /\ last' = [op |-> "linkCaller", err |-> "", key |-> key]
       /\ UNCHANGED <<existingCallers, file, returned>>

\* run of the object Response.create casts to Caller: what the call yields
\* for content, as [err, val]
StubRunResult(content) == [err |-> "", val |-> content]

\* responses[i].caller.run(content) when the caller is the object
\* Response.create built
StubRun(i, content) ==
    /\ i \in Held
    /\ responses[i].caller.k = "stub"
    /\ last' = [op |-> "stub run", arg |-> i, content |-> content]
                  @@ StubRunResult(content)
    /\ UNCHANGED <<existingCallers, responses, pendingCallerLookups, file, returned>>

\* well-formed documents written elsewhere, by caller ids from top to root
Foreign(ids) ==
    [written |-> TRUE, header |-> AITOMICS_FILE_HEADER,
     nodes |-> [i \in 1..Len(ids) |->
                  [output |-> IF i = 1 THEN Str("o") ELSE Str("p"),
                   caller |-> ids[i],
                   root |-> (i = Len(ids)), level |-> Len(ids) - i + 1]],
     seed |-> Str("s")]

ForeignChains ==
    {<<Str("a"), Str("a")>>, <<Num("7"), Str("a")>>,
     <<Str("constructor"), Str("a")>>}

Defects ==
    {"none", "header", "top.caller", "top.output", "nested.output",
     "nested.caller", "last.input", "level", "root"}

\* a document with one defect: a mistagged header, a missing property, or a
\* level / root that disagrees with the node's place in the chain
Defective(doc, d) ==
    LET k == Len(doc.nodes) IN
    CASE d = "header" -> [doc EXCEPT !.header = "OTHER"]
      [] d = "top.caller" -> [doc EXCEPT !.nodes[1].caller = Absent]
      [] d = "top.output" -> [doc EXCEPT !.nodes[1].output = Absent]
      [] d = "nested.output" /\ k > 1 -> [doc EXCEPT !.nodes[k].output = Absent]
      [] d = "nested.caller" /\ k > 1 ->
            [doc EXCEPT !.nodes = SubSeq(@, 1, k - 1), !.seed = PlainObject]
      [] d = "last.input" -> [doc EXCEPT !.seed = Absent]
      [] d = "level" -> [doc EXCEPT !.nodes[1].level = @ + 1]
      [] d = "root" -> [doc EXCEPT !.nodes[1].root = ~@]
      [] OTHER -> doc

ForeignDocs == {Defective(Foreign(ids), d) : ids \in ForeignChains, d \in Defects}

Build(seeds) ==
    \/ \E c \in Constructions : NewCaller(c[1], c[2])
    \/ NewCaller(IdentityId, "Identity")
    \/ \E key \in Keys, content \in Contents(seeds), fails \in BOOLEAN :
          Run(key, content, Produced(existingCallers[key].variant), fails, MaxBuilt)
    \/ \E input \in Contents(seeds), name \in {Null, Str("a")} :
          Create(Str("o"), input, name)

Next ==
    \/ Build(Seeds)
    \/ \E i \in 1..HeapSize : Write(i)
    \/ file.written /\ Read(file, HeapSize)
    \/ \E key \in Keys : LinkCaller(key)
    \/ \E i \in 1..HeapSize : StubRun(i, Str("s"))

Spec == Init /\ [][Next]_vars

\* a session that only registers callers and reads documents written elsewhere
NextForeign ==
    \/ \E c \in Constructions : NewCaller(c[1], c[2])
    \/ \E doc \in ForeignDocs : Read(doc, MaxLoaded)
    \/ \E key \in Keys : LinkCaller(key)
    \/ \E i \in 1..MaxLoaded : StubRun(i, Str("s"))

SpecForeign == Init /\ [][NextForeign]_vars

--------------------------------------------------------------------------
(* Comparators: class Comparator and class ComparisonModel *)

CompareSeeds == {Str("s"), Str("1"), Num("1")}

\* the comparison models handed to run / compareMultiple, by the flag their
\* constructors pass to the base class
ComparisonModels ==
    {[name |-> "Equal", isMultipleComparison |-> FALSE],
     [name |-> "Krippendorffs", isMultipleComparison |-> TRUE]}

Classes == {"Comparator", "ComparisonModel"}

\* the error the constructor common to both classes throws for (a, b),
\* "" when it binds them
ConstructorSkipsRoot(heap, a, b) ==
    IF ~(IsResponse(a) /\ IsResponse(b)) THEN "Mismatch" ELSE ""
ConstructorError(heap, a, b) ==
    IF ~(IsResponse(a) /\ IsResponse(b)) THEN "Mismatch"
    ELSE IF rootInput(heap, a) # rootInput(heap, b) THEN "Mismatch"
    ELSE ""

\* new Comparator(a, b) / new ComparisonModel(a, b)
NewComparator(cls, a, b) ==
    LET e == ConstructorError(responses, a, b)
        base == [op |-> "compare", cls |-> cls, a |-> a, b |-> b, err |-> e]
    IN /\ last' = IF e = "" THEN base @@ [ret |-> [cls |-> cls, a |-> a, b |-> b]]
                  ELSE base
       /\ UNCHANGED <<existingCallers, responses, pendingCallerLookups, file, returned>>

\* responses[i].compare(b)
ResponseCompare(i, b) ==
    /\ i \in Held
    /\ NewComparator("ComparisonModel", Ref(i), b)

\* the outcome of a call of model.run(inputa, inputb): ca and cb are the
\* Responses the two output lists were taken from
Called(ca, cb) ==
    [err |-> "", called |-> TRUE, ca |-> ca, cb |-> cb,
     inputa |-> [i \in 1..Len(ca) |-> responses[ca[i].r].output],
     inputb |-> [i \in 1..Len(cb) |-> responses[cb[i].r].output]]

NotCalled(e) == [err |-> e, called |-> FALSE]

\* Comparator.run(model) on the comparator the preceding expression built
ComparatorRun(model) ==
    /\ last.op = "compare" /\ last.err = "" /\ last.ret.cls = "Comparator"
    /\ last' = [op |-> "run model", cls |-> "Comparator", model |-> model,
                on |-> last.ret]
               @@ (IF model.isMultipleComparison THEN NotCalled("WrongModelKind")
                   ELSE Called(<<last.ret.a>>, <<last.ret.b>>))
    /\ UNCHANGED <<existingCallers, responses, pendingCallerLookups, file, returned>>

\* ComparisonModel.run(model): model.compare(a, b), which wraps the two
\* outputs and calls model.run
ComparisonModelRun(model) ==
    /\ last.op = "compare" /\ last.err = "" /\ last.ret.cls = "ComparisonModel"
    /\ last' = [op |-> "run model", cls |-> "ComparisonModel", model |-> model,
                on |-> last.ret]
               @@ Called(<<last.ret.a>>, <<last.ret.b>>)
    /\ UNCHANGED <<existingCallers, responses, pendingCallerLookups, file, returned>>

\* keys that are array indices: Object.keys lists them first
IndexKeys == {"1"}

\* the key match files a Response under: its root input as a property key
MatchKey(heap, x) == ToKey(rootInput(heap, x))

\* the keys of list in the order of their first insertion
RECURSIVE Inserted(_, _, _)
Inserted(heap, list, i) ==
    IF i = 0 THEN <<>>
    ELSE LET before == Inserted(heap, list, i - 1)
             k == MatchKey(heap, list[i])
         IN IF \E j \in 1..Len(before) : before[j] = k THEN before
            ELSE Append(before, k)

\* Object.keys(set) for the set transform fills from list
ObjectKeys(heap, list) ==
    LET ins == Inserted(heap, list, Len(list))
    IN SelectSeq(ins, LAMBDA k : k \in IndexKeys)
         \o SelectSeq(ins, LAMBDA k : k \notin IndexKeys)

\* match's transform(list, set): a later element replaces an earlier one
\* filed under the same key
transform(heap, list) ==
    [k \in {MatchKey(heap, list[i]) : i \in 1..Len(list)} |->
        LET at == {i \in 1..Len(list) : MatchKey(heap, list[i]) = k}
        IN list[CHOOSE i \in at : \A j \in at : j <= i]]

\* the loop of match over keys[i..]: [err, pairs]
RECURSIVE matchFrom(_, _, _, _, _)
matchFrom(heap, keys, aset, bset, i) ==
    IF i > Len(keys) THEN [err |-> "", pairs |-> <<>>]
    ELSE LET k == keys[i]
             rest == matchFrom(heap, keys, aset, bset, i + 1)
         IN IF k \in DOMAIN bset
            THEN LET e == ConstructorError(heap, aset[k], bset[k])
                 IN IF e # "" THEN [err |-> e, pairs |-> <<>>]
                    ELSE IF rest.err # "" THEN rest
                    ELSE [err |-> "",
                          pairs |-> <<[a |-> aset[k], b |-> bset[k]]>> \o rest.pairs]
            ELSE IF k \in ProtoKeys THEN [err |-> "Mismatch", pairs |-> <<>>]
            ELSE rest

\* Comparator.match(a, b) / ComparisonModel.match(a, b)
match(heap, a, b) ==
    matchFrom(heap, ObjectKeys(heap, a), transform(heap, a), transform(heap, b), 1)

\* lists of Responses of the session
Lists == UNION {[1..n -> Refs] : n \in 0..MaxList}

\* what Comparator.compareMultiple(responsesA, responsesB, model) does with
\* model.run: the outcome of the call, or the error thrown before it
ComparatorCompareMultipleResult(responsesA, responsesB, model) ==
    LET m == match(responses, responsesA, responsesB)
    IN IF ~model.isMultipleComparison THEN NotCalled("WrongModelKind")
       ELSE IF m.err # "" THEN NotCalled(m.err)
       ELSE IF Len(m.pairs) = 0 THEN NotCalled("NoMatch")
       ELSE Called([i \in 1..Len(m.pairs) |-> m.pairs[i].a],
                   [i \in 1..Len(m.pairs) |-> m.pairs[i].b])

\* Comparator.compareMultiple(responsesA, responsesB, model)
ComparatorCompareMultiple(responsesA, responsesB, model) ==
    /\ last' = [op |-> "compareMultiple", cls |-> "Comparator", model |-> model,
                responsesA |-> responsesA, responsesB |-> responsesB]
               @@ ComparatorCompareMultipleResult(responsesA, responsesB, model)
    /\ UNCHANGED <<existingCallers, responses, pendingCallerLookups, file, returned>>

\* what ComparisonModel.compareMultiple(responsesA, responsesB, model) does
\* with model.run
PassesMatchedPairs(responsesA, responsesB, model) ==
    ComparatorCompareMultipleResult(responsesA, responsesB, model)
ComparisonModelCompareMultipleResult(responsesA, responsesB, model) ==
    Called(responsesA, responsesB)

\* ComparisonModel.compareMultiple(responsesA, responsesB, model)
ComparisonModelCompareMultiple(responsesA, responsesB, model) ==
    /\ last' = [op |-> "compareMultiple", cls |-> "ComparisonModel",
                model |-> model, responsesA |-> responsesA,
                responsesB |-> responsesB]
               @@ ComparisonModelCompareMultipleResult(responsesA, responsesB, model)
    /\ UNCHANGED <<existingCallers, responses, pendingCallerLookups, file, returned>>

\* Comparator.match(a, b) / ComparisonModel.match(a, b) called by the program
Match(cls, a, b) ==
    /\ last' = [op |-> "match", cls |-> cls, a |-> a, b |-> b]
               @@ match(responses, a, b)
    /\ UNCHANGED <<existingCallers, responses, pendingCallerLookups, file, returned>>

\* a session that builds chains with the identity caller and compares pairs
NextCompare ==
    \/ \E content \in Contents(CompareSeeds) :
          Run(ToKey(IdentityId), content, Str("o"), FALSE, MaxBuilt)
    \/ \E i \in 1..MaxBuilt, b \in Contents({Str("s")}) : ResponseCompare(i, b)
    \/ \E a, b \in Contents({Str("s")}) : NewComparator("Comparator", a, b)
    \/ \E model \in ComparisonModels : ComparatorRun(model)
    \/ \E model \in ComparisonModels : ComparisonModelRun(model)

SpecCompare == Init /\ [][NextCompare]_vars

\* a session that also compares lists
NextMultiple ==
    \/ NextCompare
    \/ \E responsesA, responsesB \in Lists, model \in ComparisonModels :
          ComparatorCompareMultiple(responsesA, responsesB, model)
    \/ \E responsesA, responsesB \in Lists, model \in ComparisonModels :
          ComparisonModelCompareMultiple(responsesA, responsesB, model)
    \/ \E cls \in Classes, a, b \in Lists : Match(cls, a, b)

SpecMultiple == Init /\ [][NextMultiple]_vars

\* a session that builds chains and compares lists with the current class;
\* a list comparison reads the heap and changes nothing, so one that directly
\* follows another reaches no new outcome and is left out
NextPositional ==
    \/ \E content \in Contents(CompareSeeds) :
          Run(ToKey(IdentityId), content, Str("o"), FALSE, MaxBuilt)
    \/ /\ last.op # "compareMultiple"
       /\ \E responsesA, responsesB \in Lists, model \in ComparisonModels :
             ComparisonModelCompareMultiple(responsesA, responsesB, model)

SpecPositional == Init /\ [][NextPositional]_vars

--------------------------------------------------------------------------
(* Comparison models: run as a function of its two arrays.  A number is the *)
(* fraction [n, d]; d = 0 stands for NaN.                                   *)

Frac(n, d) == [n |-> n, d |-> d]

Max(x, y) == IF x >= y THEN x ELSE y

\* arrays of at most n labels
Arrays(labels, n) == UNION {[1..k -> labels] : k \in 0..n}

\* how many elements of array are the label l
Occurrences(array, l) == Cardinality({i \in 1..Len(array) : array[i] = l})

\* an element of an output: a label, or a nested array of labels
Label(s) == [arr |-> FALSE, v |-> <<s>>]
Nested(seq) == [arr |-> TRUE, v |-> seq]

EqualElements == {Label("x"), Label("y"), Nested(<<"x", "y">>), Nested(<<"y", "x">>)}

\* areEqual(a, b): arrays are equal when their sorted JSON texts are, that
\* is, when they hold the same labels the same number of times; other values
\* when a === b.  (The sort is in place; run never reads the order again.)
areEqual(a, b) ==
    IF a.arr /\ b.arr
    THEN IF Len(a.v) = 0 /\ Len(b.v) = 0 THEN TRUE
         ELSE IF Len(a.v) # Len(b.v) THEN FALSE
         ELSE \A l \in {a.v[i] : i \in 1..Len(a.v)} \cup {b.v[i] : i \in 1..Len(b.v)} :
                 Occurrences(a.v, l) = Occurrences(b.v, l)
    ELSE a = b

\* the test of the filters of run: e has a counterpart in input
InOther(input, e) ==
    IF e.arr
    THEN \E j \in 1..Len(input) : input[j].arr /\ areEqual(e, input[j])
    ELSE \E j \in 1..Len(input) : ~input[j].arr /\ input[j] = e

\* input.filter(e => e has a counterpart in other, or has none).length
filterLength(input, other, kept) ==
    Cardinality({i \in 1..Len(input) : InOther(other, input[i]) = kept})

\* run dividing by the number of positions that hold a common or a unique element
EqualRunOverUnion(inputa, inputb) ==
    LET commonElements == filterLength(inputa, inputb, TRUE)
        uniqueToA == filterLength(inputa, inputb, FALSE)
        uniqueToB == filterLength(inputb, inputa, FALSE)
    IN IF Len(inputa) = 0 /\ Len(inputb) = 0 THEN Frac(1, 1)
       ELSE IF commonElements = 0 THEN Frac(0, 1)
       ELSE Frac(commonElements, uniqueToA + uniqueToB + commonElements)
\* run without the special case for two empty arrays
EqualRunNoEmptyCase(inputa, inputb) ==
    LET commonElements == filterLength(inputa, inputb, TRUE)
    IN IF commonElements = 0 THEN Frac(0, 1)
       ELSE Frac(commonElements, Max(Len(inputa), Len(inputb)))
\* run dividing by the length of the first array
EqualRunFirstLength(inputa, inputb) ==
    LET commonElements == filterLength(inputa, inputb, TRUE)
    IN IF Len(inputa) = 0 /\ Len(inputb) = 0 THEN Frac(1, 1)
       ELSE IF commonElements = 0 THEN Frac(0, 1)
       ELSE Frac(commonElements, Len(inputa))
\* EqualComparisonModel.run(inputa, inputb)
EqualComparisonModelRun(inputa, inputb) ==
    LET commonElements == filterLength(inputa, inputb, TRUE)
        totalPositions == Max(Len(inputa), Len(inputb))
    IN IF Len(inputa) = 0 /\ Len(inputb) = 0 THEN Frac(1, 1)
       ELSE IF commonElements = 0 THEN Frac(0, 1)
       ELSE Frac(commonElements, totalPositions)

\* the two arrays a program is about to hand to a model
Inputs(labels) ==
    /\ ModuleLoad
    /\ \E inputa, inputb \in Arrays(labels, MaxLen) :
          last = [op |-> "input", inputa |-> inputa, inputb |-> inputb]

InitEqual == Inputs(EqualElements)

\* new EqualComparisonModel().run(inputa, inputb)
EqualRun ==
    /\ last.op = "input"
    /\ last' = [op |-> "EqualComparisonModel.run", inputa |-> last.inputa,
                inputb |-> last.inputb,
                result |-> EqualComparisonModelRun(last.inputa, last.inputb)]
    /\ UNCHANGED <<existingCallers, responses, pendingCallerLookups, file, returned>>

NextEqual == EqualRun

SpecEqual == InitEqual /\ [][NextEqual]_vars

\* new DistanceComparisonModel(distance, orderedList): the tests' distance
\* and a three-step scale
distance == 1
orderedList == <<"neg", "neu", "pos">>

\* labels handed to run: those of orderedList and one that is not on it
DistanceLabels == {"neg", "neu", "pos", "other"}

\* orderedList.indexOf(k), counted from 1, 0 when k is absent
indexOf(list, k) ==
    IF \E i \in 1..Len(list) : list[i] = k
    THEN CHOOSE i \in 1..Len(list) : list[i] = k /\ \A j \in 1..(i - 1) : list[j] # k
    ELSE 0

\* the default weightFn, in halves: 2 for 1, 1 for 0.5
weightFn(k, l) ==
    LET kIndex == indexOf(orderedList, k)
        lIndex == indexOf(orderedList, l)
        dist == IF kIndex >= lIndex THEN kIndex - lIndex ELSE lIndex - kIndex
    IN IF k = l THEN 2
       ELSE IF kIndex = 0 \/ lIndex = 0 THEN 0
       ELSE IF dist <= distance THEN 1 ELSE 0

\* the inner loop of run for one element e of a: the best unused match in b;
\* the first of equally good ones wins, usedB holds values
bestOf(e, b, usedB) ==
    LET unused == {j \in 1..Len(b) : b[j] \notin usedB}
        maxWeight == IF \E j \in unused : weightFn(e, b[j]) > 0
                     THEN CHOOSE w \in {weightFn(e, b[j]) : j \in unused} :
                             \A j \in unused : weightFn(e, b[j]) <= w
                     ELSE 0
        first == IF maxWeight > 0
                 THEN CHOOSE j \in unused : /\ weightFn(e, b[j]) = maxWeight
                                            /\ \A h \in unused : h < j => weightFn(e, b[h]) < maxWeight
                 ELSE 0
    IN [maxWeight |-> maxWeight, found |-> maxWeight > 0,
        bestMatch |-> IF maxWeight > 0 THEN b[first] ELSE "null"]

\* the outer loop of run from element i of a on: the sum of the best weights
RECURSIVE sumFrom(_, _, _, _)
sumFrom(a, b, i, usedB) ==
    IF i > Len(a) THEN 0
    ELSE LET best == bestOf(a[i], b, usedB)
         IN best.maxWeight
            + sumFrom(a, b, i + 1, IF best.found THEN usedB \cup {best.bestMatch} ELSE usedB)

\* DistanceComparisonModel.run(inputa, inputb) with the default weightFn
DistanceComparisonModelRun(inputa, inputb) ==
    LET a == IF Len(inputa) >= Len(inputb) THEN inputa ELSE inputb
        b == IF Len(inputa) >= Len(inputb) THEN inputb ELSE inputa
        hasAnyMatch == \E i \in 1..Len(a), j \in 1..Len(b) : weightFn(a[i], b[j]) > 0
    IN IF Len(inputa) = 0 /\ Len(inputb) = 0 THEN Frac(1, 1)
       ELSE IF ~hasAnyMatch THEN Frac(0, 1)
       ELSE Frac(sumFrom(a, b, 1, {}), 2 * Len(a))

InitDistance == Inputs(DistanceLabels)

\* new DistanceComparisonModel(distance, orderedList).run(inputa, inputb)
DistanceRun ==
    /\ last.op = "input"
    /\ last' = [op |-> "DistanceComparisonModel.run", inputa |-> last.inputa,
                inputb |-> last.inputb,
                result |-> DistanceComparisonModelRun(last.inputa, last.inputb)]
    /\ UNCHANGED <<existingCallers, responses, pendingCallerLookups, file, returned>>

NextDistance == DistanceRun

SpecDistance == InitDistance /\ [][NextDistance]_vars

\* Math.floor(n / d * scale) / scale for d > 0
Floor(n, d, scale) == Frac((scale * n) \div d, scale)
\* Math.round(n / d * scale) / scale for d > 0: Math.round(x) is floor(x + 1/2)
Round(n, d, scale) == Frac((2 * scale * n + d) \div (2 * d), scale)

\* new CohensComparisonModel(value)
value == "positive"

\* the items of the reviewers' lists: a label, no label, or an array of labels
CohensItems == {Label("positive"), Label(""), Nested(<<"negative", "positive">>)}

\* convertToString(arr): String(v) of a string is v, arrays are converted
\* element by element
convertToString(arr) ==
    [i \in 1..Len(arr) |-> IF arr[i].arr THEN Nested([k \in 1..Len(arr[i].v) |-> arr[i].v[k]])
                           ELSE arr[i]]

\* v1 / v2 of the loop: does item i of p carry the label (p[i] is undefined
\* past the end of p)
carries(p, i, lbl) ==
    IF i > Len(p) THEN FALSE
    ELSE IF p[i].arr THEN \E k \in 1..Len(p[i].v) : p[i].v[k] = lbl
    ELSE p[i].v[1] = lbl

\* calculateCohensKappa without the second term of the chance agreement
KappaWithoutP2(lbl, p1, p2) ==
    LET TP == Cardinality({i \in 1..Len(p1) : carries(p1, i, lbl) /\ carries(p2, i, lbl)})
        TN == Cardinality({i \in 1..Len(p1) : ~carries(p1, i, lbl) /\ ~carries(p2, i, lbl)})
        FN == Cardinality({i \in 1..Len(p1) : carries(p1, i, lbl) /\ ~carries(p2, i, lbl)})
        FP == Cardinality({i \in 1..Len(p1) : ~carries(p1, i, lbl) /\ carries(p2, i, lbl)})
        N == Len(p1)
        Pe == (TP + FN) * (TP + FP)
    IN IF N = 0 THEN Frac(1, 1)
       ELSE IF Pe = N * N THEN (IF TP + TN = N THEN Frac(1, 1) ELSE Frac(0, 1))
       ELSE Round(N * (TP + TN) - Pe, N * N - Pe, 100)
\* CohensComparisonModel.calculateCohensKappa(value, p1, p2); P0, P1, P2 and
\* Pe are kept as numerators over N and N * N
calculateCohensKappa(lbl, p1, p2) ==
    LET TP == Cardinality({i \in 1..Len(p1) : carries(p1, i, lbl) /\ carries(p2, i, lbl)})
        TN == Cardinality({i \in 1..Len(p1) : ~carries(p1, i, lbl) /\ ~carries(p2, i, lbl)})
        FN == Cardinality({i \in 1..Len(p1) : carries(p1, i, lbl) /\ ~carries(p2, i, lbl)})
        FP == Cardinality({i \in 1..Len(p1) : ~carries(p1, i, lbl) /\ carries(p2, i, lbl)})
        N == Len(p1)
        P1 == (TP + FN) * (TP + FP)
        P2 == (TN + FN) * (TN + FP)
        Pe == P1 + P2
    IN IF N = 0 THEN Frac(1, 1)
       ELSE IF Pe = N * N THEN (IF TP + TN = N THEN Frac(1, 1) ELSE Frac(0, 1))
       ELSE Round(N * (TP + TN) - Pe, N * N - Pe, 100)

\* CohensComparisonModel.run(inputa, inputb)
CohensComparisonModelRun(inputa, inputb) ==
    calculateCohensKappa(value, convertToString(inputa), convertToString(inputb))

\* the two reviewers' lists a program is about to hand to a multi-item model
Reviewers(items) ==
    /\ ModuleLoad
    /\ \E inputa, inputb \in Arrays(items, MaxItems) :
          last = [op |-> "input", inputa |-> inputa, inputb |-> inputb]

InitCohens == Reviewers(CohensItems)

\* new CohensComparisonModel(value).run(inputa, inputb)
CohensRun ==
    /\ last.op = "input"
    /\ last' = [op |-> "CohensComparisonModel.run", inputa |-> last.inputa,
                inputb |-> last.inputb,
                result |-> CohensComparisonModelRun(last.inputa, last.inputb)]
    /\ UNCHANGED <<existingCallers, responses, pendingCallerLookups, file, returned>>

NextCohens == CohensRun

SpecCohens == InitCohens /\ [][NextCohens]_vars

\* new KrippendorffsComparisonModel(labels): this.labels, and q of the
\* calculation
labels == <<"positive", "negative">>

\* the default weightFn of KrippendorffsComparisonModel
w(k, l) == IF k = l THEN 1 ELSE 0

\* the items of the reviewers' lists: one label, or an array of two
KrippendorffsItems == {Label("positive"), Label("negative"), Nested(<<"positive", "negative">>)}

NaN == Frac(0, 0)

\* sums of fractions and of numbers
FracAdd(x, y) == Frac(x.n * y.d + y.n * x.d, x.d * y.d)

RECURSIVE SumOver(_, _)
SumOver(f, S) ==
    IF S = {} THEN 0
    ELSE LET x == CHOOSE x \in S : TRUE IN f[x] + SumOver(f, S \ {x})

RECURSIVE FracSumOver(_, _)
FracSumOver(f, S) ==
    IF S = {} THEN Frac(0, 1)
    ELSE LET x == CHOOSE x \in S : TRUE IN FracAdd(f[x], FracSumOver(f, S \ {x}))

\* calculateJaccard(setA, setB) of two arrays of labels
calculateJaccard(setA, setB) ==
    LET A == {setA[i] : i \in 1..Len(setA)}
        B == {setB[i] : i \in 1..Len(setB)}
    IN IF A \cup B = {} THEN Frac(1, 1)
       ELSE Frac(Cardinality(A \cap B), Cardinality(A \cup B))

\* preprocessing of one reviewer: every item becomes the array of its valid
\* labels (String(v) of a label is the label)
validLabels(reviewerData) ==
    [i \in 1..Len(reviewerData) |->
        SelectSeq(reviewerData[i].v, LAMBDA s : \E k \in 1..Len(labels) : labels[k] = s)]

\* the items that stay: those for which both reviewers gave a valid label
\* (itemsToRemove holds the others among the first reviewer's items)
remaining(ra, rb) ==
    {i \in 1..Len(ra) : Len(ra[i]) > 0 /\ i <= Len(rb) /\ Len(rb[i]) > 0}

\* how often lbl occurs in the labels of the remaining items
labelCounts(ra, rb, items, lbl) ==
    SumOver([i \in items |-> Cardinality({k \in 1..Len(ra[i]) : ra[i][k] = lbl})
                             + Cardinality({k \in 1..Len(rb[i]) : rb[i][k] = lbl})], items)

\* the pairs k_idx <= l_idx of the two nested loops over q
labelPairs == {<<k, l>> \in (1..Len(labels)) \X (1..Len(labels)) : k <= l}

\* the sum both single-label loops compute from the counts of the labels
pairSum(count) ==
    SumOver([kl \in labelPairs |->
                IF kl[1] = kl[2]
                THEN count[kl[1]] * (count[kl[1]] - 1) * w(labels[kl[1]], labels[kl[2]])
                ELSE count[kl[1]] * count[kl[2]] * w(labels[kl[1]], labels[kl[2]]) * 2],
            labelPairs)

\* p_a and p_e of the multi-label path
multiLabel(ra, rb, items) ==
    LET n == Cardinality(items)
        totalObservedAgreement == FracSumOver([i \in items |-> calculateJaccard(ra[i], rb[i])], items)
        labelProbs == [k \in 1..Len(labels) |-> labelCounts(ra, rb, items, labels[k])]
        totalLabels == SumOver(labelProbs, 1..Len(labels))
    IN [p_a |-> Frac(totalObservedAgreement.n, totalObservedAgreement.d * n),
        p_e |-> IF totalLabels > 0
                THEN Frac(SumOver([k \in 1..Len(labels) |-> labelProbs[k] * labelProbs[k]],
                                  1..Len(labels)),
                          totalLabels * totalLabels)
                ELSE Frac(0, 1),
        nan |-> FALSE]

\* the single-label path with the observed agreement taken from the pairs
\* of different labels
singleLabelDisagreeing(ra, rb, items) ==
    LET n == Cardinality(items)
        agree == Cardinality({i \in items : ra[i][1] = rb[i][1]})
        count == [k \in 1..Len(labels) |-> labelCounts(ra, rb, items, labels[k])]
        total == SumOver(count, 1..Len(labels))
    IN [p_a |-> Frac(n - agree, n),
        p_e |-> IF total * (total - 1) > 0 THEN Frac(pairSum(count), total * (total - 1))
                ELSE Frac(0, 1),
        nan |-> FALSE]
\* p_a and p_e of the single-label path; nan when it returns NaN early
singleLabel(ra, rb, items) ==
    LET n == Cardinality(items)
        r == [i \in items |-> [k \in 1..Len(labels) |->
                 (IF ra[i][1] = labels[k] THEN 1 ELSE 0) + (IF rb[i][1] = labels[k] THEN 1 ELSE 0)]]
        ri == [i \in items |-> SumOver(r[i], 1..Len(labels))]
        rsum == SumOver(ri, items)
        total_p_ai == FracSumOver([i \in items |->
                         IF ri[i] >= 2 THEN Frac(pairSum(r[i]), ri[i] * (ri[i] - 1))
                         ELSE Frac(0, 1)], items)
        labelCount == [k \in 1..Len(labels) |-> labelCounts(ra, rb, items, labels[k])]
        totalLabelAssignments == SumOver(labelCount, 1..Len(labels))
        totalPairs == totalLabelAssignments * (totalLabelAssignments - 1)
    IN [p_a |-> Frac(total_p_ai.n, total_p_ai.d * n),
        p_e |-> IF totalPairs > 0 THEN Frac(pairSum(labelCount), totalPairs) ELSE Frac(0, 1),
        nan |-> rsum = 0]

\* the values Math.round(n / d * scale) / scale can take for d > 0 when n / d
\* is itself the result of floating-point operations: the nearest multiple
\* of 1 / scale, and either neighbour when n / d lies half-way between two
\* (the rounding error of the operands then decides)
Rounded(n, d, scale) ==
    {Round(n, d, scale)}
       \cup (IF (2 * scale * n + d) % (2 * d) = 0
             THEN {Frac(Round(n, d, scale).n - 1, scale)} ELSE {})

\* preprocessing, path selection and the path's p_a and p_e; n is the
\* number of remaining items
agreement(reviewerA, reviewerB) ==
    LET ra == validLabels(reviewerA)
        rb == validLabels(reviewerB)
        isMultiLabel == \/ \E i \in 1..Len(ra) : Len(ra[i]) > 1
                        \/ \E i \in 1..Len(rb) : Len(rb[i]) > 1
        items == remaining(ra, rb)
        p == IF isMultiLabel THEN multiLabel(ra, rb, items) ELSE singleLabel(ra, rb, items)
    IN [n |-> Cardinality(items), isMultiLabel |-> isMultiLabel,
        nan |-> Cardinality(items) = 0 \/ p.nan,
        p_a |-> IF Cardinality(items) = 0 THEN Frac(0, 1) ELSE p.p_a,
        p_e |-> IF Cardinality(items) = 0 THEN Frac(0, 1) ELSE p.p_e]

\* KrippendorffsComparisonModel.calculateKrippendorffsAlpha(labels,
\* [reviewerA, reviewerB], w): the values it can return
calculateKrippendorffsAlpha(reviewerA, reviewerB) ==
    LET g == agreement(reviewerA, reviewerB)
    IN IF g.nan THEN {NaN}
       ELSE IF g.p_e.n = g.p_e.d
            THEN {IF g.p_a.n = g.p_a.d THEN Frac(1, 1) ELSE NaN}
       ELSE Rounded(g.p_a.n * g.p_e.d - g.p_e.n * g.p_a.d,
                    g.p_a.d * (g.p_e.d - g.p_e.n), 1000)

\* KrippendorffsComparisonModel.run(inputa, inputb)
KrippendorffsComparisonModelRun(inputa, inputb) ==
    calculateKrippendorffsAlpha(convertToString(inputa), convertToString(inputb))

InitKrippendorffs == Reviewers(KrippendorffsItems)

\* new KrippendorffsComparisonModel(labels).run(inputa, inputb)
KrippendorffsRun ==
    /\ last.op = "input"
    /\ \E result \in KrippendorffsComparisonModelRun(last.inputa, last.inputb) :
          last' = [op |-> "KrippendorffsComparisonModel.run", inputa |-> last.inputa,
                   inputb |-> last.inputb, result |-> result]
    /\ UNCHANGED <<existingCallers, responses, pendingCallerLookups, file, returned>>

NextKrippendorffs == KrippendorffsRun

SpecKrippendorffs == InitKrippendorffs /\ [][NextKrippendorffs]_vars

--------------------------------------------------------------------------
(* EqualComparisonModel.compare on Responses whose outputs are arrays: *)
(* areEqual sorts the nested arrays it compares in place                *)

\* an output that is an array of labels and nested arrays
ArrayOutput(array) == [t |-> "array", v |-> array, r |-> 0]

\* the position of a label in the order Array.prototype.sort uses
rank(l) == IF l = "x" THEN 1 ELSE 2

\* a.sort() of a nested array of labels
sort(v) ==
    CHOOSE s \in [1..Len(v) -> {v[i] : i \in 1..Len(v)}] :
       /\ \A l \in {v[i] : i \in 1..Len(v)} : Occurrences(s, l) = Occurrences(v, l)
       /\ \A i \in 1..(Len(v) - 1) : rank(s[i]) <= rank(s[i + 1])

\* the elements of other that other.some(f => Array.isArray(f) &&
\* areEqual(e, f)) hands to areEqual: the arrays up to the first that matches
reachedBy(e, other) ==
    {j \in 1..Len(other) :
        /\ other[j].arr
        /\ \A h \in 1..(j - 1) : ~(other[h].arr /\ areEqual(e, other[h]))}

\* areEqual(e, f) gets as far as e.sort() and f.sort()
sorts(e, f) == e.arr /\ f.arr /\ Len(e.v) = Len(f.v) /\ Len(e.v) > 0

\* array own after run(own, other) or run(other, own): the three filters
\* compare every array of one input with the arrays of the other
afterRun(own, other) ==
    [k \in 1..Len(own) |->
        IF /\ own[k].arr
           /\ \/ \E j \in reachedBy(own[k], other) : sorts(own[k], other[j])
              \/ \E j \in 1..Len(other) :
                    other[j].arr /\ k \in reachedBy(other[j], own) /\ sorts(other[j], own[k])
        THEN Nested(sort(own[k].v))
        ELSE own[k]]

\* responses[i].compare(responses[j]).run(new EqualComparisonModel())
EqualCompare(i, j) ==
    LET e == ConstructorError(responses, Ref(i), Ref(j))
        a == responses[i].output.v
        b == responses[j].output.v
    IN /\ i \in Held /\ j \in Held
       /\ last.op # "EqualComparisonModel.compare"
       /\ IF e # ""
          THEN /\ last' = [op |-> "EqualComparisonModel.compare", err |-> e, a |-> i, b |-> j]
               /\ UNCHANGED responses
          ELSE /\ last' = [op |-> "EqualComparisonModel.compare", err |-> "", a |-> i, b |-> j,
                           result |-> EqualComparisonModelRun(a, b)]
               /\ responses' =
                    IF Len(a) = 0 /\ Len(b) = 0 THEN responses
                    ELSE [h \in 1..Len(responses) |->
                            IF h = i THEN [responses[h] EXCEPT !.output = ArrayOutput(afterRun(a, b))]
                            ELSE IF h = j THEN [responses[h] EXCEPT !.output = ArrayOutput(afterRun(b, a))]
                            ELSE responses[h]]
       /\ UNCHANGED <<existingCallers, pendingCallerLookups, file, returned>>

NextOutputs ==
    \/ \E array \in Arrays(EqualElements, MaxLen), seed \in Seeds : Create(ArrayOutput(array), seed, Null)
    \/ \E i, j \in 1..Len(responses) : EqualCompare(i, j)

SpecOutputs == Init /\ [][NextOutputs]_vars

--------------------------------------------------------------------------
(* Two asynchronous tasks that each construct a Caller with the same id. *)
(* The constructor is synchronous: its check and its store are one step.  *)

\* the variant of the Caller each task constructs
TaskVariant == <<"Programmatic", "LLM">>

\* no task of an earlier start is still to run
NoTaskSuspended == last.op = "tasks" => last.pc = <<"done", "done">>

\* both tasks are started with the same id and suspend before constructing
StartTasks(id) ==
    /\ NoTaskSuspended
    /\ last' = [op |-> "tasks", id |-> id, before |-> existingCallers,
                pc |-> <<"suspended", "suspended">>, err |-> <<"", "">>, order |-> <<>>]
    /\ UNCHANGED <<existingCallers, responses, pendingCallerLookups, file, returned>>

\* task p resumes and runs new ProgrammaticCaller(fun, id) / new LLMCaller(context, id)
TaskConstructs(p) ==
    /\ last.op = "tasks" /\ last.pc[p] = "suspended"
    /\ IF CallerConstructorThrows(existingCallers, last.id)
       THEN /\ last' = [last EXCEPT !.pc[p] = "done", !.err[p] = "Duplicate",
                                    !.order = Append(@, p)]
            /\ UNCHANGED existingCallers
       ELSE /\ existingCallers' = CallerConstructor(existingCallers, last.id, TaskVariant[p])
            /\ last' = [last EXCEPT !.pc[p] = "done", !.order = Append(@, p)]
    /\ UNCHANGED <<responses, pendingCallerLookups, file, returned>>

NextTasks ==
    \/ NoTaskSuspended /\ \E c \in Constructions : NewCaller(c[1], c[2])
    \/ \E id \in CallerIds : StartTasks(id)
    \/ \E p \in 1..2 : TaskConstructs(p)

SpecTasks == Init /\ [][NextTasks]_vars

--------------------------------------------------------------------------
(* A session that registers callers and runs them *)

NextRun ==
    \/ \E c \in Constructions : NewCaller(c[1], c[2])
    \/ \E key \in Keys, content \in Contents(Seeds \cup {PlainObject}), fails \in BOOLEAN :
          RunRecorded(key, content, Produced(existingCallers[key].variant), fails,
                      MaxBuilt + 1)

SpecRun == Init /\ [][NextRun]_vars

--------------------------------------------------------------------------
(* Response.get on chains built with Response.create *)

\* Response.get(level) from curr: before every hop curr must be a Response
RECURSIVE get(_, _, _)
get(heap, curr, level) ==
    IF level = 0 THEN [err |-> "", ret |-> curr]
    ELSE IF ~IsResponse(curr) THEN [err |-> "NotAResponse", ret |-> Null]
    ELSE get(heap, heap[curr.r].input, level - 1)

Get(i, level) ==
    /\ i \in Held
    /\ last' = [op |-> "get", r |-> i, level |-> level] @@
               get(responses, Ref(i), level)
    /\ UNCHANGED <<existingCallers, responses, pendingCallerLookups, file,
                   returned>>

NextGet ==
    \/ \E output \in {Str("o"), Str("p")}, input \in Contents(Seeds) :
          Create(output, input, Null)
    \/ \E i \in 1..Len(responses), level \in 0..(MaxBuilt + 1) : Get(i, level)

SpecGet == Init /\ [][NextGet]_vars

--------------------------------------------------------------------------
(* Two runs of one utility analysis caller (createUtilityAnalysisCaller) *)

\* what fun receives from a content: a string, or the output object of a
\* Response with the type of its output property
StringItem(s) == [type |-> "string", text |-> s, output |-> "", outputType |-> "undefined"]
ObjectItem(o, type) == [type |-> "object", text |-> "", output |-> o, outputType |-> type]

\* the text run p is about: each run has its own
Own(p) == IF p = 1 THEN "x" ELSE "y"

\* the contents run p can be started on: c is what ProgrammaticCaller.run
\* sees, i what it hands to fun (content.output for a Response)
UtilityContents(p) ==
    {[c |-> Str(Own(p)), i |-> StringItem(Own(p))],
     [c |-> Num("1"), i |-> StringItem("")],
     [c |-> Ref(1), i |-> StringItem(Own(p))],
     [c |-> Ref(1), i |-> ObjectItem(Own(p), "string")],
     [c |-> Ref(1), i |-> ObjectItem("", "undefined")],
     [c |-> Ref(1), i |-> ObjectItem("5", "number")]}

\* the second argument ProgrammaticCaller.run passes to fun: it calls
\* this.fun(input), so the parameter `response` of fun is undefined
passedResponse == Undefined

\* `let memory = {}` of the closure all runs of the caller share: its output
\* property
EmptyMemory == [output |-> "", outputType |-> "undefined"]

\* the function of the caller `${name}.1.generate-input` on i with the
\* shared memory: [err, memory]; reading response.input of undefined throws
generateInput(memory, i) ==
    IF i.type = "object"
    THEN IF i.outputType = "undefined" \/ i.output = ""
         THEN [err |-> "NoValue", memory |-> memory]
         ELSE IF i.outputType # "string"
         THEN [err |-> "ValueType", memory |-> memory]
         ELSE [err |-> IF IsResponse(passedResponse) THEN "" ELSE "TypeError",
               memory |-> [output |-> i.output, outputType |-> i.outputType]]
    ELSE IF i.type = "string"
    THEN [err |-> IF IsResponse(passedResponse) THEN "" ELSE "NoPreviousResponse",
          memory |-> [memory EXCEPT !.output = i.text, !.outputType = "string"]]
    ELSE [err |-> "InputType", memory |-> memory]

InitUtility ==
    /\ ModuleLoad
    /\ last = [op |-> "utility", memory |-> EmptyMemory,
               pc |-> <<"idle", "idle">>,
               content |-> <<[c |-> Str(""), i |-> StringItem("")],
                             [c |-> Str(""), i |-> StringItem("")]>>,
               err |-> <<"", "">>,
               result |-> <<[output |-> "", analysis |-> ""],
                            [output |-> "", analysis |-> ""]>>]

\* run p calls caller.run(content): the composed function awaits before it
\* runs its first caller, so the run is suspended with nothing done
UtilityStart(p, content) ==
    /\ last.pc[p] # "generate-input"
    /\ last' = [last EXCEPT !.pc[p] = "generate-input", !.content[p] = content,
                            !.err[p] = "",
                            !.result[p] = [output |-> "", analysis |-> ""]]
    /\ UNCHANGED <<existingCallers, responses, pendingCallerLookups, file, returned>>

\* run p resumes in `${name}.1.generate-input`.run(content): the input check
\* of ProgrammaticCaller.run, then fun; an error of fun ends the whole run
GenerateInput(p) ==
    /\ last.pc[p] = "generate-input"
    /\ LET content == last.content[p]
           g == generateInput(last.memory, content.i)
       IN IF IllegalInput("Programmatic", content.c)
          THEN last' = [last EXCEPT !.pc[p] = "done", !.err[p] = "IllegalInput"]
          ELSE IF g.err # ""
          THEN last' = [last EXCEPT !.pc[p] = "done", !.err[p] = "Transformation",
                                    !.memory = g.memory]
          ELSE last' = [last EXCEPT !.pc[p] = "llm-check", !.memory = g.memory]
    /\ UNCHANGED <<existingCallers, responses, pendingCallerLookups, file, returned>>

NextUtility ==
    \/ \E p \in 1..2 : \E content \in UtilityContents(p) : UtilityStart(p, content)
    \/ \E p \in 1..2 : GenerateInput(p)

SpecUtility == InitUtility /\ [][NextUtility]_vars

--------------------------------------------------------------------------
(* Properties *)

\* a Caller with this id is in the registry
Registered(reg, id) ==
    /\ ToKey(id) \in DOMAIN reg
    /\ reg[ToKey(id)].variant # "none"
    /\ reg[ToKey(id)].id = id

\* the value reached from x after n steps along input
RECURSIVE Walk(_, _, _)
Walk(heap, x, n) ==
    IF n = 0 \/ ~IsResponse(x) THEN x ELSE Walk(heap, heap[x.r].input, n - 1)

\* the seed a chain grew from: a chain is never longer than the heap
SeedOf(heap, x) == Walk(heap, x, Len(heap))

\* Response.toString: the caller id, the output and the level as the template
\* literal renders them
toString(R) == <<ToKey(R.caller.id), ToKey(R.output), R.level>>

\* Response.toStringExpanded: the lines of the chain, top first
toStringExpanded(heap, x) ==
    LET c == ChainOf(heap, x) IN [j \in 1..Len(c) |-> toString(heap[c[j]])]

\* C1: constructing a Caller whose id is not registered registers it under
\* that id and changes no other entry; constructing one whose id is registered
\* fails with the duplicate error and leaves the registry as it was.
C1_Registration ==
    [][last'.op = "new Caller" =>
         LET key == ToKey(last'.id)
         IN IF Registered(existingCallers, last'.id)
            THEN last'.err = "Duplicate" /\ existingCallers' = existingCallers
            ELSE /\ last'.err = ""
                 /\ existingCallers' =
                      [existingCallers EXCEPT
                          ![key] = [id |-> last'.id, variant |-> last'.variant]]]_vars

\* C2: when a Caller is registered, every Response a read returned and left
\* pending under its id has that Caller as its caller right after the
\* registration, and its pending entry is gone.
C2_LinkedOnRegistration ==
    [][last'.op = "new Caller" /\ last'.err = "" =>
         \A e \in pendingCallerLookups :
            e.key = last'.id /\ e.r \in Held =>
               /\ responses'[e.r].caller =
                     CallerRef(existingCallers', ToKey(last'.id))
               /\ e \notin pendingCallerLookups']_vars

\* C3: reading back the file written from a chain succeeds and returns a chain
\* of the same depth with the same output, caller id, level and expanded text
\* at every level.
C3_RoundTrip ==
    last.op = "read" /\ "of" \in DOMAIN last.doc =>
       /\ last.err = ""
       /\ LET o == ChainOf(responses, Ref(last.doc.of))
              l == ChainOf(responses, Ref(last.ret))
          IN /\ Len(o) = Len(l)
             /\ \A j \in 1..Len(o) :
                   /\ responses[l[j]].output = responses[o[j]].output
                   /\ responses[l[j]].caller.id = responses[o[j]].caller.id
                   /\ responses[l[j]].level = responses[o[j]].level
             /\ toStringExpanded(responses, Ref(last.ret)) =
                   toStringExpanded(responses, Ref(last.doc.of))

\* C4: every Response on the chain an operation returns has root true exactly
\* when its input is not a Response, level 1 exactly when it is a root, and
\* otherwise the level of its input plus one.
C4_RootAndLevel ==
    last.op \in {"run", "create", "read"} /\ last.err = "" =>
       \A i \in {ChainOf(responses, Ref(last.ret))[j] :
                    j \in 1..Len(ChainOf(responses, Ref(last.ret)))} :
          LET R == responses[i]
          IN /\ R.root <=> ~IsResponse(R.input)
             /\ R.level = 1 <=> R.root
             /\ IsResponse(R.input) => R.level = responses[R.input.r].level + 1

\* C5: after a successful read, every returned Response whose node names a
\* caller id that is registered has the registered Caller as its caller, and
\* the read left no pending lookup under that id.
C5_BoundToRegistered ==
    last.op = "read" /\ last.err = "" =>
       LET l == ChainOf(responses, Ref(last.ret))
       IN \A j \in 1..Len(last.doc.nodes) :
             LET id == Prop(last.doc.nodes[j].caller)
             IN Registered(existingCallers, id) /\ j <= Len(l) =>
                   /\ responses[l[j]].caller = CallerRef(existingCallers, ToKey(id))
                   /\ \A e \in pendingCallerLookups :
                         e.r >= last.first => e.key # id

\* a document whose header is not the tag or one of whose nodes lacks caller,
\* input or output; a nested node without caller is what the documents carry
\* as a plain-object seed
Malformed(doc) ==
    \/ doc.header # AITOMICS_FILE_HEADER
    \/ \E j \in 1..Len(doc.nodes) :
          doc.nodes[j].caller = Absent \/ doc.nodes[j].output = Absent
    \/ doc.seed = Absent
    \/ doc.seed = PlainObject

\* C6: reading a malformed document fails with the invalid-format error and
\* returns no Response.
C6_MalformedRejected ==
    last.op = "read" /\ Malformed(last.doc) =>
       last.err = "InvalidFormat" /\ last.ret = 0

\* C7: run of the stub a loaded Response carries for an unregistered caller id
\* yields no result.
C7_StubCannotRun ==
    last.op = "stub run" => last.err # "" /\ last.val = Undefined

\* C8: building a comparator over (a, b) fails with the mismatch error when
\* either is not a Response or the seeds of the two chains differ, and
\* otherwise returns a comparator bound to exactly (a, b).
C8_CompareBinds ==
    last.op = "compare" =>
       IF /\ IsResponse(last.a) /\ IsResponse(last.b)
          /\ SeedOf(responses, last.a) = SeedOf(responses, last.b)
       THEN /\ last.err = ""
            /\ last.ret.a = last.a /\ last.ret.b = last.b
       ELSE last.err = "Mismatch" /\ "ret" \notin DOMAIN last

\* a comparator over two chains of different depth was built
C8_Witness ==
    /\ last.op = "compare" /\ last.err = ""
    /\ Depth(responses, last.a) # Depth(responses, last.b)
    /\ last.ret = [cls |-> "ComparisonModel", a |-> last.a, b |-> last.b]

\* C9: run with a model for multiple comparisons fails, compareMultiple with a
\* model for single comparisons fails, and neither calls model.run.
C9_ModelKindChecked ==
    /\ last.op = "run model" /\ last.model.isMultipleComparison =>
          last.err # "" /\ ~last.called
    /\ last.op = "compareMultiple" /\ ~last.model.isMultipleComparison =>
          last.err # "" /\ ~last.called

\* C10: when compareMultiple calls model.run for a model for multiple
\* comparisons, the two lists it passes are equally long, their i-th outputs
\* come from Responses of the two argument lists that share a root input, and
\* they are those Responses' outputs.
C10_MatchedOutputsPassed ==
    last.op = "compareMultiple" /\ last.model.isMultipleComparison /\ last.called =>
       /\ Len(last.ca) = Len(last.cb)
       /\ \A i \in 1..Len(last.ca) :
             /\ \E j \in 1..Len(last.responsesA) : last.responsesA[j] = last.ca[i]
             /\ \E j \in 1..Len(last.responsesB) : last.responsesB[j] = last.cb[i]
             /\ SeedOf(responses, last.ca[i]) = SeedOf(responses, last.cb[i])
             /\ last.inputa[i] = responses[last.ca[i].r].output
             /\ last.inputb[i] = responses[last.cb[i].r].output

\* the two lists have no Responses that share a root input
NoCommonRoot(heap, a, b) ==
    \A i \in 1..Len(a), j \in 1..Len(b) : SeedOf(heap, a[i]) # SeedOf(heap, b[j])

\* C11: compareMultiple with a model for multiple comparisons fails with the
\* no-match error and does not call model.run when no Response of the first
\* list shares its root input with one of the second (so also when a list is
\* empty).
C11_NoMatchFails ==
    /\ last.op = "compareMultiple" /\ last.model.isMultipleComparison
    /\ NoCommonRoot(responses, last.responsesA, last.responsesB)
    => last.err = "NoMatch" /\ ~last.called

\* every Response of the two lists grew from the same root input
SameRoot(heap, a, b) ==
    \A i \in 1..Len(a), j \in 1..Len(b) :
       /\ SeedOf(heap, a[i]) = SeedOf(heap, a[1])
       /\ SeedOf(heap, b[j]) = SeedOf(heap, a[1])

\* C12: ComparisonModel.compareMultiple over two lists of N > 0 Responses that
\* all share one root input calls model.run with N outputs per side, the i-th
\* of each side being the output of the i-th Response of that list.
C12_PositionalPairs ==
    /\ last.op = "compareMultiple" /\ last.cls = "ComparisonModel"
    /\ Len(last.responsesA) > 0 /\ Len(last.responsesA) = Len(last.responsesB)
    /\ SameRoot(responses, last.responsesA, last.responsesB)
    => /\ last.err = "" /\ last.called
       /\ Len(last.inputa) = Len(last.responsesA)
       /\ Len(last.inputb) = Len(last.responsesB)
       /\ last.ca = last.responsesA /\ last.cb = last.responsesB
       /\ \A i \in 1..Len(last.responsesA) :
             /\ last.inputa[i] = responses[last.responsesA[i].r].output
             /\ last.inputb[i] = responses[last.responsesB[i].r].output

\* two lists of MaxList different Responses with one root input were compared
C12_Witness ==
    /\ last.op = "compareMultiple" /\ last.cls = "ComparisonModel"
    /\ last.model.isMultipleComparison
    /\ Len(last.responsesA) = MaxList /\ Len(last.responsesB) = MaxList
    /\ SameRoot(responses, last.responsesA, last.responsesB)
    /\ last.responsesA[1] # last.responsesA[2]
    /\ last.called /\ Len(last.inputa) = MaxList

\* the root inputs that occur in list
RootsOf(heap, list) == {SeedOf(heap, list[i]) : i \in 1..Len(list)}

\* C13: match on two lists of Responses does not fail; it returns one pair
\* (a from the first list, b from the second, equal root inputs) for each root
\* input that occurs in both lists and nothing else.
C13_MatchNeverFails ==
    last.op = "match" =>
       /\ last.err = ""
       /\ \A i \in 1..Len(last.pairs) :
             /\ \E j \in 1..Len(last.a) : last.a[j] = last.pairs[i].a
             /\ \E j \in 1..Len(last.b) : last.b[j] = last.pairs[i].b
             /\ SeedOf(responses, last.pairs[i].a) = SeedOf(responses, last.pairs[i].b)
       /\ {SeedOf(responses, last.pairs[i].a) : i \in 1..Len(last.pairs)} =
             RootsOf(responses, last.a) \cap RootsOf(responses, last.b)
       /\ Len(last.pairs) =
             Cardinality(RootsOf(responses, last.a) \cap RootsOf(responses, last.b))

\* the number r is the fraction n / d
IsFrac(r, n, d) == r.d # 0 /\ d # 0 /\ r.n * d = n * r.d

\* two elements of outputs are the same: the same label, or nested arrays
\* with the same members
SameElement(e, f) ==
    \/ e = f
    \/ /\ e.arr /\ f.arr /\ Len(e.v) = Len(f.v)
       /\ \A l \in {e.v[i] : i \in 1..Len(e.v)} :
             Cardinality({i \in 1..Len(e.v) : e.v[i] = l})
                = Cardinality({i \in 1..Len(f.v) : f.v[i] = l})

\* the elements of A that occur in B, and of A that do not
Intersection(A, B) == Cardinality({i \in 1..Len(A) : \E j \in 1..Len(B) : SameElement(A[i], B[j])})
OnlyIn(A, B) == Cardinality({i \in 1..Len(A) : \A j \in 1..Len(B) : ~SameElement(A[i], B[j])})

\* C14: EqualComparisonModel.run of two empty arrays is 1, of a non-empty
\* array and itself is 1, and of two non-empty arrays without a common
\* element is 0.
C14_EqualIdenticalAndDisjoint ==
    last.op = "EqualComparisonModel.run" =>
       LET A == last.inputa
           B == last.inputb
       IN /\ A = <<>> /\ B = <<>> => IsFrac(last.result, 1, 1)
          /\ A # <<>> /\ A = B => IsFrac(last.result, 1, 1)
          /\ (/\ A # <<>> /\ B # <<>>
              /\ \A i \in 1..Len(A), j \in 1..Len(B) : ~SameElement(A[i], B[j]))
             => IsFrac(last.result, 0, 1)

\* run was applied to two non-empty arrays without a common element, one of
\* them holding a nested array (two empty arrays and X, X are other states)
C14_Witness ==
    /\ last.op = "EqualComparisonModel.run"
    /\ last.inputa = <<Label("x"), Nested(<<"x", "y">>)>>
    /\ last.inputb = <<Label("y")>>
    /\ last.result = Frac(0, 1)

Reorderings(array) ==
    {[i \in 1..Len(array) |-> array[p[i]]] :
        p \in {q \in [1..Len(array) -> 1..Len(array)] :
                  \A i, j \in 1..Len(array) : q[i] = q[j] => i = j}}

\* C17: the average DistanceComparisonModel.run returns does not depend on
\* the order of the elements within either input array.
C17_OrderIndependent ==
    last.op = "DistanceComparisonModel.run" =>
       \A ra \in Reorderings(last.inputa), rb \in Reorderings(last.inputb) :
          LET other == DistanceComparisonModelRun(ra, rb)
          IN other.n * last.result.d = last.result.n * other.d

\* C18: DistanceComparisonModel.run(X, X) is 1 for every array X of labels
\* from orderedList, and for two empty arrays.
C18_IdenticalIsOne ==
    /\ last.op = "DistanceComparisonModel.run"
    /\ last.inputa = last.inputb
    /\ \A i \in 1..Len(last.inputa) : indexOf(orderedList, last.inputa[i]) # 0
    => IsFrac(last.result, 1, 1)

\* item i of a reviewer's list has the label: it is the label or an array
\* that includes it
Present(list, i, lbl) ==
    IF list[i].arr THEN \E k \in 1..Len(list[i].v) : list[i].v[k] = lbl
    ELSE list[i] = Label(lbl)

\* the 2x2 contingency table of two equally long lists for a label
Contingency(A, B, lbl) ==
    LET Both(x, y) == Cardinality({i \in 1..Len(A) : Present(A, i, lbl) = x /\ Present(B, i, lbl) = y})
    IN [TP |-> Both(TRUE, TRUE), TN |-> Both(FALSE, FALSE),
        FN |-> Both(TRUE, FALSE), FP |-> Both(FALSE, TRUE), N |-> Len(A)]

\* kappa of a table as a fraction: P0 - Pe over 1 - Pe, both scaled by N^2
Kappa(c) ==
    LET chance == (c.TP + c.FN) * (c.TP + c.FP) + (c.TN + c.FN) * (c.TN + c.FP)
    IN [n |-> c.N * (c.TP + c.TN) - chance, d |-> c.N * c.N - chance]

\* the cases of C19 that do not involve the value of kappa: no items, chance
\* agreement 1, identical sequences
CohensEdgeCases(A, B, result) ==
    LET c == Contingency(A, B, "positive")
    IN /\ c.N = 0 => IsFrac(result, 1, 1)
       /\ c.N > 0 /\ Kappa(c).d = 0 =>
             IsFrac(result, IF c.TP + c.TN = c.N THEN 1 ELSE 0, 1)
       /\ c.N > 0 /\ A = B => IsFrac(result, 1, 1)

\* C19 as stated: over N paired items run returns 1 when N = 0, kappa =
\* (P0 - Pe)/(1 - Pe) when Pe is not 1, and 1 or 0 when Pe = 1; identical
\* sequences give 1.
C19_ExactKappa ==
    last.op = "CohensComparisonModel.run" /\ Len(last.inputa) = Len(last.inputb) =>
       LET k == Kappa(Contingency(last.inputa, last.inputb, "positive"))
       IN /\ CohensEdgeCases(last.inputa, last.inputb, last.result)
          /\ Len(last.inputa) > 0 /\ k.d # 0 => IsFrac(last.result, k.n, k.d)

\* C19: as above, except that when Pe is not 1 the result is kappa rounded
\* to two decimals: a multiple of 1/100 at most 1/200 away from kappa.
C19_RoundedKappa ==
    last.op = "CohensComparisonModel.run" /\ Len(last.inputa) = Len(last.inputb) =>
       LET k == Kappa(Contingency(last.inputa, last.inputb, "positive"))
           r == last.result
           diff == r.n * k.d - k.n * r.d
       IN /\ CohensEdgeCases(last.inputa, last.inputb, r)
          /\ Len(last.inputa) > 0 /\ k.d # 0 =>
                /\ r.d > 0 /\ (100 * r.n) % r.d = 0
                /\ 200 * (IF diff >= 0 THEN diff ELSE -diff) <= r.d * k.d

\* run was applied to four paired items whose kappa, -1/3, is not a multiple
\* of 1/100, and returned -0.33
C19_Witness ==
    /\ last.op = "CohensComparisonModel.run"
    /\ Len(last.inputa) = 4 /\ Len(last.inputb) = 4
    /\ Kappa(Contingency(last.inputa, last.inputb, "positive")) = [n |-> -2, d |-> 6]
    /\ last.result = Frac(-33, 100)

\* two lists of at least four paired items, each a single label of
\* ["positive", "negative"]
FourSingleLabelItems(A, B) ==
    /\ Len(A) = Len(B) /\ Len(A) >= 4
    /\ \A i \in 1..Len(A) : {A[i], B[i]} \subseteq {Label("positive"), Label("negative")}

\* C20: over at least 4 paired single-label items alpha is within 0.05 of 1
\* when the raters give the same label on every item, and negative when
\* rater B gives the opposite label on every item.
C20_AgreementAndOpposition ==
    last.op = "KrippendorffsComparisonModel.run" /\ FourSingleLabelItems(last.inputa, last.inputb) =>
       LET r == last.result
       IN /\ last.inputa = last.inputb =>
                /\ r.d > 0
                /\ 20 * (r.n - r.d) <= r.d /\ 20 * (r.d - r.n) <= r.d
          /\ (\A i \in 1..Len(last.inputa) : last.inputa[i] # last.inputb[i]) =>
                r.d > 0 /\ r.n < 0

\* four items on which rater B gave the opposite label each time: -0.75
C20_Witness ==
    /\ last.op = "KrippendorffsComparisonModel.run"
    /\ FourSingleLabelItems(last.inputa, last.inputb)
    /\ \A i \in 1..Len(last.inputa) : last.inputa[i] # last.inputb[i]
    /\ last.result = Frac(-750, 1000)

\* alpha = (p_a - p_e) / (1 - p_e) of the two lists as a fraction with a
\* positive denominator; non-degenerate when there are items and p_e is not 1
ExactAlpha(A, B) ==
    LET g == agreement(convertToString(A), convertToString(B))
    IN [degenerate |-> g.nan \/ g.p_e.n = g.p_e.d,
        n |-> g.p_a.n * g.p_e.d - g.p_e.n * g.p_a.d,
        d |-> g.p_a.d * (g.p_e.d - g.p_e.n)]

Abs(x) == IF x >= 0 THEN x ELSE -x

\* C21 as stated: in the non-degenerate case the result is alpha truncated
\* toward zero to 3 decimals: a multiple of 0.001 with |result| <= |alpha|
\* and |alpha - result| < 0.001.
C21_TruncatedTowardZero ==
    LET a == ExactAlpha(last.inputa, last.inputb)
        r == last.result
    IN last.op = "KrippendorffsComparisonModel.run" /\ ~a.degenerate =>
          /\ r.d > 0 /\ (1000 * r.n) % r.d = 0
          /\ Abs(r.n) * a.d <= Abs(a.n) * r.d
          /\ 1000 * Abs(a.n * r.d - r.n * a.d) < a.d * r.d

\* C21: in the non-degenerate case the result is alpha rounded to the
\* nearest multiple of 0.001, so |alpha - result| <= 0.0005, for positive
\* and negative alpha alike.
C21_RoundedToNearest ==
    LET a == ExactAlpha(last.inputa, last.inputb)
        r == last.result
    IN last.op = "KrippendorffsComparisonModel.run" /\ ~a.degenerate =>
          /\ r.d > 0 /\ (1000 * r.n) % r.d = 0
          /\ 2000 * Abs(a.n * r.d - r.n * a.d) <= a.d * r.d

\* alpha = -1/6 was returned as -0.167, further from zero than alpha
C21_Witness ==
    /\ last.op = "KrippendorffsComparisonModel.run"
    /\ ~ExactAlpha(last.inputa, last.inputb).degenerate
    /\ 6 * ExactAlpha(last.inputa, last.inputb).n = -ExactAlpha(last.inputa, last.inputb).d
    /\ last.result = Frac(-167, 1000)

\* C22: no step changes the output, input, generator, root or level of an
\* existing Response, and caller changes only from an unresolved stub to the
\* registered Caller with the same id.
C22_ImmutableAfterConstruction ==
    [][\A i \in 1..Len(responses) :
          /\ i <= Len(responses')
          /\ responses'[i].output = responses[i].output
          /\ responses'[i].input = responses[i].input
          /\ responses'[i].generator = responses[i].generator
          /\ responses'[i].root = responses[i].root
          /\ responses'[i].level = responses[i].level
          /\ responses'[i].caller # responses[i].caller =>
                /\ responses[i].caller.k = "stub"
                /\ responses'[i].caller.k = "caller"
                /\ responses'[i].caller.id = responses[i].caller.id]_vars

\* C23: when two registrations for an id no Caller holds are in flight
\* together, then however they interleave the one that runs first succeeds,
\* the other fails with the duplicate error, and the registry ends with the
\* first one's Caller.
C23_ExactlyOneWins ==
    /\ last.op = "tasks"
    /\ last.pc = <<"done", "done">>
    /\ ~Registered(last.before, last.id)
    => /\ last.err[last.order[1]] = ""
       /\ last.err[last.order[2]] = "Duplicate"
       /\ existingCallers[ToKey(last.id)] =
             [id |-> last.id, variant |-> TaskVariant[last.order[1]]]

\* a run of a ProgrammaticCaller has just ended
ProgrammaticRan ==
    /\ last'.op = "run" /\ "key" \in DOMAIN last'
    /\ existingCallers[last'.key].variant = "Programmatic"

\* C24: ProgrammaticCaller.run rejects content that is neither a string nor
\* a Response whether or not fn would raise; when fn raises, the error names
\* the chain's root input and the caller's id; no failing run produces a
\* Response.
C24_RunErrors ==
    [][ProgrammaticRan =>
         LET content == last'.content
             legal == content.t = "string" \/ content.t = "response"
         IN /\ ~legal => last'.err = "IllegalInput"
            /\ legal /\ last'.fails =>
                  /\ last'.err = "Transformation"
                  /\ last'.root = Walk(responses, content, Len(responses))
                  /\ last'.id = existingCallers[last'.key].id
            /\ legal /\ ~last'.fails => last'.err = ""
            /\ last'.err # "" => responses' = responses /\ returned' = returned]_vars

\* fn raised on a Response of level 2: the error names the seed and the id
C24_Witness ==
    /\ last.op = "run" /\ "key" \in DOMAIN last
    /\ existingCallers[last.key].variant = "Programmatic"
    /\ last.err = "Transformation"
    /\ last.content.t = "response" /\ responses[last.content.r].level = 2
    /\ last.root = Str("s") /\ last.id = Str("a")

\* C25: get(k) on r returns the Response at level r.level - k when
\* 0 <= k < r.level, fails when fewer than k Responses precede r, and so
\* never returns anything but a Response.
C25_GetReturnsResponse ==
    last.op = "get" =>
        LET r == responses[last.r]
        IN /\ last.level < r.level =>
                 /\ last.err = ""
                 /\ IsResponse(last.ret)
                 /\ responses[last.ret.r].level = r.level - last.level
           /\ last.level > r.level - 1 => last.err # ""
           /\ last.err = "" => IsResponse(last.ret)

\* a Response on the heap whose caller is a stub Response.create built for id
StubFor(heap, id) ==
    \E i \in 1..Len(heap) : heap[i].caller.k = "stub" /\ heap[i].caller.id = id

\* C26: readResponses and Response.create leave the registry as it is, and
\* registering a Caller under an unregistered id for which a stub exists
\* succeeds.
C26_StubsOccupyNothing ==
    [][/\ last'.op \in {"read", "create"} => existingCallers' = existingCallers
       /\ (/\ last'.op = "new Caller"
           /\ ~Registered(existingCallers, last'.id)
           /\ StubFor(responses, last'.id))
          => last'.err = "" /\ Registered(existingCallers', last'.id)]_vars

\* the Responses of the chain returned by the latest readResponses whose
\* caller is a stub and that the pending lookup for the stub's id misses
Unlinked ==
    LET chain == ChainOf(responses, Ref(last.ret))
    IN {chain[j] : j \in
          {k \in 1..Len(chain) :
              /\ responses[chain[k]].caller.k = "stub"
              /\ [key |-> responses[chain[k]].caller.id, r |-> chain[k]]
                    \notin pendingCallerLookups}}

\* C27: after readResponses returns, every Response of the returned chain
\* whose caller is an unresolved stub is a member of the pending lookup for
\* the stub's id.
C27_ReturnedStubsPending ==
    last.op = "read" /\ last.err = "" => Unlinked = {}

\* C28: EqualComparisonModel.run gives the same value when its two arguments
\* are exchanged, also for arrays that repeat an element.
C28_RunSymmetric ==
    last.op = "EqualComparisonModel.run" =>
        LET swapped == EqualComparisonModelRun(last.inputb, last.inputa)
        IN last.result.n * swapped.d = swapped.n * last.result.d

\* the first reviewer's list without its last item
WithoutLast(input) == SubSeq(input, 1, Len(input) - 1)

\* C29: an item only one reviewer rated, which preprocessing drops, changes
\* neither the path taken nor the returned alpha: the run gives what it
\* gives for the lists without that item.
C29_DroppedItemInert ==
    last.op = "KrippendorffsComparisonModel.run" /\ Len(last.inputa) > Len(last.inputb) =>
        LET without == WithoutLast(last.inputa)
        IN /\ agreement(convertToString(last.inputa), convertToString(last.inputb)).isMultiLabel
                = agreement(convertToString(without), convertToString(last.inputb)).isMultiLabel
           /\ last.result \in KrippendorffsComparisonModelRun(without, last.inputb)

\* what the utility caller documents as its input: a Response whose output
\* is a string or an object with a string output property
Analysable(content) ==
    /\ IsResponse(content.c)
    /\ content.i.type = "string" \/ content.i.outputType = "string"

====
